---- MODULE Spec2Model ----
(***************************************************************************)
(* Model of mineralink_fetch_and_tile.py: main() walks the catalog STATES, *)
(* fetch_features() pages through one ArcGIS layer, reprojects what it got *)
(* and writes data/<state>.geojson, then build_tiles() hands the files of  *)
(* the data directory to tippecanoe and git_commit_and_push() publishes.   *)
(*                                                                         *)
(* The server, the file system, tippecanoe and git are the environment:    *)
(* every response, write result and exit status is a nondeterministic      *)
(* choice.  So is every call of log(): it prints and appends to            *)
(* build_log.txt, and either may raise.  A layer is named by its position  *)
(* in STATES.                                                              *)
(***************************************************************************)
EXTENDS Integers, Sequences, FiniteSets

\* ---------------------------------------------------------------- bounds
\* Layers of the catalog that the model walks (STATES has 11).
NumLayers == 2
\* Non-empty pages a server returns for one layer before the model makes
\* it answer with an end-of-data or an error response.
MaxPages == 2

\* ------------------------------------------------------- program constants
page_size == 2000
\* build_tiles keeps the files with st_size > 500.
MinFileSize == 500
\* len(json.dumps({"type": "FeatureCollection", "features": []}))
EmptyCollectionBytes == 45

Layers == 1..NumLayers

\* ------------------------------------------------------------- features
\* A feature as the server sends it: f["geometry"] and the length of its
\* JSON text.  Point3857 is a point in web-mercator metres; NullGeometry is
\* "geometry": null, on which shape() raises.
Point3857 == [type |-> "Point", coordinates |-> <<-9203418, 4539833>>]
NullGeometry == [type |-> "null", coordinates |-> <<>>]
PointFeature == [geometry |-> Point3857, bytes |-> 300]
NullFeature == [geometry |-> NullGeometry, bytes |-> 60]
RawFeatures == {PointFeature, NullFeature}

\* shape(f["geometry"]) succeeds only on a recognised geometry.
ShapeOk(geom) == geom.type = "Point"

\* transformer.transform of EPSG:3857 -> EPSG:4326 on the sample
\* coordinates, the result in hundredths of a degree (lon, lat).
Transform(coordinates) ==
    IF coordinates = <<-9203418, 4539833>> THEN <<-8268, 3772>>
    ELSE coordinates

\* shapely_ops.transform + mapping: the geometry with transformed coordinates.
Reprojected(geom) == [geom EXCEPT !.coordinates = Transform(geom.coordinates)]

\* reproject_geojson: the features whose geometry converts, in order, each
\* with its geometry replaced; a feature that raises is skipped.
RECURSIVE reproject_geojson(_)
reproject_geojson(features) ==
    IF features = <<>> THEN <<>>
    ELSE LET f == Head(features)
             rest == reproject_geojson(Tail(features))
         IN IF ShapeOk(f.geometry)
            THEN <<[f EXCEPT !.geometry = Reprojected(f.geometry)]>> \o rest
            ELSE rest

\* ---------------------------------------------------------------- files
RECURSIVE SumBytes(_)
SumBytes(features) ==
    IF features = <<>> THEN 0
    ELSE Head(features).bytes + SumBytes(Tail(features))

\* len(json.dumps(geojson)): the features joined by ", " inside the list.
DumpSize(features) ==
    EmptyCollectionBytes + SumBytes(features)
        + (IF Len(features) > 1 THEN 2 * (Len(features) - 1) ELSE 0)

NoFile == [exists |-> FALSE, features |-> <<>>, bytes |-> 0]
\* A data/<state>.geojson an earlier run left behind.
OldFile == [exists |-> TRUE,
            features |-> reproject_geojson(<<PointFeature, PointFeature>>),
            bytes |-> DumpSize(<<PointFeature, PointFeature>>)]
\* out_file.write_text(...) that raised after open() truncated the file
\* and b bytes of the text got written: no parseable collection.
PartialFile(b) == [exists |-> TRUE, features |-> <<>>, bytes |-> b]
\* The sizes a failed write may leave, all below the size of the full text
\* (any size below it can occur; these stand for an empty file, a file at
\* the 500-byte threshold of build_tiles and a file above it).
PartialSizes(size) == {b \in {0, MinFileSize, 600} : b < size}
WrittenFile(features) ==
    [exists |-> TRUE, features |-> features, bytes |-> DumpSize(features)]

\* What out_file.write_text does to the file: "ok" writes it, "unchanged"
\* raises before the file is touched, "partial" raises after open(), with
\* b bytes written.
WriteResults == {"ok", "unchanged", "partial"}
FailedWrites == WriteResults \ {"ok"}
FileAfterWrite(old, features, w, b) ==
    CASE w = "ok" -> WrittenFile(features)
      [] w = "unchanged" -> old
      [] OTHER -> PartialFile(b)
\* The sizes to choose from for the write result w.
SizesOf(features, w) ==
    IF w = "partial" THEN PartialSizes(DumpSize(features)) ELSE {0}

\* build_tiles line 122: the files of the data directory above 500 bytes.
ValidFiles(fs) == {l \in Layers : fs[l].exists /\ fs[l].bytes > MinFileSize}

\* The fallback dataset store of the specification (an external
\* collaborator): the number of features of the layer's fallback dataset,
\* 0 when it has none.  The program never reads it.
FallbackCount(l) == IF l = NumLayers THEN 50 ELSE 0

\* ------------------------------------------------------------ responses
\* Responses on which requests.get, raise_for_status or r.json() raises.
Errors == {"timeout", "http_5xx", "non_json"}
Transient == {"timeout", "http_5xx"}
\* Responses that parse but carry no features.
EndOfData == {[features |-> <<>>], [error |-> "x"]}

\* The non-empty pages a server returns (it may return fewer features than
\* resultRecordCount): a page of one good feature, of one bad feature, and
\* of both.
Pages == {<<PointFeature>>, <<NullFeature>>, <<PointFeature, NullFeature>>}

\* line 91: "features" not in data or not data["features"]
IsEndOfData(data) ==
    IF "features" \notin DOMAIN data THEN TRUE ELSE data.features = <<>>

\* A faulty NextOffset: the offset is not advanced.
SameOffset(offset) == offset
\* line 95
NextOffset(offset) == offset + page_size

\* lines 96-98: the handler logs and breaks out of the loop.
PcAfterException == "assemble"
\* lines 96-98: the handler leaves the list of features as it is.
FeaturesAfterException(features) == features

\* line 100
NothingFetched(features) == features = <<>>
\* line 102
EmptyReturn(l) == 0
\* lines 113-115
WriteReturn(features, w) == IF w = "ok" THEN Len(features) ELSE 0
\* line 182
NoData(t) == t = 0
\* lines 198-199: the script calls main() and nothing else.  The statuses
\* the interpreter may exit with: 0 when main returns, 1 when an exception
\* leaves main, and in both cases 120 when what print() left in the buffer
\* of stdout cannot be flushed at exit.
ExitStatuses(p) == IF p = "crashed" THEN {1, 120} ELSE {0, 120}

VARIABLES
    pc,            \* where main is
    li,            \* the layer main's loop is at (index into STATES)
    processed,     \* layers on which fetch_features was called, in order
    all_features,  \* fetch_features: all_features
    result_offset, \* fetch_features: result_offset
    requested,     \* resultOffset of every request sent for the layer
    pages,         \* the non-empty pages received for the layer
    failed,        \* resultOffset of the requests of the layer that raised
    last_response, \* what ended the loop: "none", "end", an error of
                   \* Errors, or "log_raised_at_94"
    counts,        \* the count main got for each processed layer
    total,         \* main: total
    files,         \* data/<state>.geojson of each layer
    wrote,         \* result of this run's write_text of each layer
    build_called,  \* build_tiles() was called
    tiled,         \* the files passed to tippecanoe
    push_called,   \* git_commit_and_push() was called
    outcome        \* how main ended

fetch_vars == <<all_features, result_offset, requested, pages, failed,
               last_response>>
main_vars == <<li, processed, counts, total>>
tail_vars == <<build_called, tiled, push_called, outcome>>
vars == <<pc, li, processed, all_features, result_offset, requested, pages,
          failed, last_response, counts, total, files, wrote, build_called, tiled,
          push_called, outcome>>

\* main before its loop: the data directory exists (mkdir exist_ok=True)
\* and may hold files of an earlier run.
Init ==
    /\ pc = "layer"
    /\ li = 1
    /\ processed = <<>>
    /\ all_features = <<>>
    /\ result_offset = 0
    /\ requested = <<>>
    /\ pages = <<>>
    /\ failed = {}
    /\ last_response = "none"
    /\ counts = <<>>
    /\ total = 0
    /\ files \in [Layers -> {NoFile, OldFile}]
    /\ wrote = [l \in Layers |-> "none"]
    /\ build_called = FALSE
    /\ tiled = {}
    /\ push_called = FALSE
    /\ outcome = "running"

\* log() (lines 44-50) raised where no handler catches it: the exception
\* leaves main.
LogRaised == pc' = "crashed" /\ outcome' = "log_error"

\* main lines 175-176: log("Fetching ...") raises, fetch_features is not
\* called.
BeginLayerLogRaises ==
    /\ pc = "layer"
    /\ li <= NumLayers
    /\ LogRaised
    /\ UNCHANGED <<main_vars, fetch_vars, files, wrote, build_called, tiled,
                   push_called>>

\* main lines 175-177 and fetch_features lines 74-77.
BeginLayer ==
    /\ pc = "layer"
    /\ li <= NumLayers
    /\ processed' = Append(processed, li)
    /\ all_features' = <<>>
    /\ result_offset' = 0
    /\ requested' = <<>>
    /\ pages' = <<>>
    /\ failed' = {}
    /\ last_response' = "none"
    /\ pc' = "request"
    /\ UNCHANGED <<li, counts, total, files, wrote, tail_vars>>

\* lines 80-88: requests.get with resultOffset = result_offset.
RequestPage ==
    /\ pc = "request"
    /\ requested' = Append(requested, result_offset)
    /\ pc' = "await"
    /\ UNCHANGED <<all_features, result_offset, pages, failed, last_response,
                   main_vars, files, wrote, tail_vars>>

\* lines 89-95: a response with features.
ReceivePage ==
    /\ pc = "await"
    /\ Len(pages) < MaxPages
    /\ \E page \in Pages :
        /\ ~IsEndOfData([features |-> page])
        /\ all_features' = all_features \o page
        /\ pages' = Append(pages, page)
    /\ result_offset' = NextOffset(result_offset)
    /\ pc' = "request"
    /\ UNCHANGED <<requested, failed, last_response, main_vars, files, wrote,
                   tail_vars>>

\* lines 89-98: a response with features is appended (line 93), log() at
\* line 94 raises inside the try, before the offset is advanced; the handler
\* logs (line 97), which raises too or not, and breaks.
ReceivePageLogRaises ==
    /\ pc = "await"
    /\ Len(pages) < MaxPages
    /\ \E page \in Pages :
        /\ ~IsEndOfData([features |-> page])
        /\ all_features' = FeaturesAfterException(all_features \o page)
        /\ pages' = Append(pages, page)
    /\ last_response' = "log_raised_at_94"
    /\ \E again \in BOOLEAN :
        IF again THEN LogRaised
        ELSE pc' = PcAfterException /\ outcome' = outcome
    /\ UNCHANGED <<result_offset, requested, failed, main_vars, files, wrote,
                   build_called, tiled, push_called>>

\* lines 89-92: a response with an empty features list or without the key.
ReceiveEnd ==
    /\ pc = "await"
    /\ \E data \in EndOfData : IsEndOfData(data)
    /\ last_response' = "end"
    /\ pc' = "assemble"
    /\ UNCHANGED <<all_features, result_offset, requested, pages, failed,
                   main_vars, files, wrote, tail_vars>>

\* lines 96-98: the request, raise_for_status or r.json() raised.
ReceiveError ==
    /\ pc = "await"
    /\ \E e \in Errors : last_response' = e
    /\ failed' = failed \cup {result_offset}
    /\ all_features' = FeaturesAfterException(all_features)
    /\ pc' = PcAfterException
    /\ UNCHANGED <<result_offset, requested, pages,
                   main_vars, files, wrote, tail_vars>>

\* lines 96-97: the request, raise_for_status or r.json() raised, and so
\* does log() inside the handler.
ReceiveErrorLogRaises ==
    /\ pc = "await"
    /\ \E e \in Errors : last_response' = e
    /\ failed' = failed \cup {result_offset}
    /\ LogRaised
    /\ UNCHANGED <<all_features, result_offset, requested, pages,
                   main_vars, files, wrote, build_called, tiled, push_called>>

\* lines 100-101 and main lines 178-179: log() raises at line 101 (nothing
\* is returned) or at main's line 179 (the count is already added).
ReturnEmptyLogRaises ==
    /\ pc = "assemble"
    /\ NothingFetched(all_features)
    /\ \E counted \in BOOLEAN :
        IF counted
        THEN /\ counts' = Append(counts, EmptyReturn(li))
             /\ total' = total + EmptyReturn(li)
        ELSE UNCHANGED <<counts, total>>
    /\ LogRaised
    /\ UNCHANGED <<li, processed, fetch_vars, files, wrote, build_called,
                   tiled, push_called>>

\* lines 100-102 and main lines 178-179.
ReturnEmpty ==
    /\ pc = "assemble"
    /\ NothingFetched(all_features)
    /\ counts' = Append(counts, EmptyReturn(li))
    /\ total' = total + EmptyReturn(li)
    /\ li' = li + 1
    /\ pc' = "layer"
    /\ UNCHANGED <<processed, fetch_vars, files, wrote, tail_vars>>

\* lines 105 and 57: Transformer.from_crs raises (no PROJ data), outside
\* the try of the loop over the features: the exception leaves
\* reproject_geojson, fetch_features and main.
ReprojectRaises ==
    /\ pc = "assemble"
    /\ ~NothingFetched(all_features)
    /\ pc' = "crashed"
    /\ outcome' = "reproject_error"
    /\ UNCHANGED <<main_vars, fetch_vars, files, wrote, build_called, tiled,
                   push_called>>

\* lines 104-115 and main lines 178-179.
ReturnWritten ==
    /\ pc = "assemble"
    /\ ~NothingFetched(all_features)
    /\ all_features' = reproject_geojson(all_features)
    /\ \E w \in WriteResults : \E b \in SizesOf(all_features', w) :
        /\ files' = [files EXCEPT ![li] = FileAfterWrite(files[li], all_features', w, b)]
        /\ wrote' = [wrote EXCEPT ![li] = w]
        /\ counts' = Append(counts, WriteReturn(all_features', w))
        /\ total' = total + WriteReturn(all_features', w)
    /\ li' = li + 1
    /\ pc' = "layer"
    /\ UNCHANGED <<processed, result_offset, requested, pages, failed,
                   last_response, tail_vars>>

\* lines 104-113: log() raises inside the handler (line 113), after
\* write_text raised or after write_text succeeded and log() at line 111,
\* inside the try, raised: the exception leaves fetch_features and main.
WriteLogRaises ==
    /\ pc = "assemble"
    /\ ~NothingFetched(all_features)
    /\ all_features' = reproject_geojson(all_features)
    /\ \E w \in WriteResults : \E b \in SizesOf(all_features', w) :
        /\ files' = [files EXCEPT ![li] = FileAfterWrite(files[li], all_features', w, b)]
        /\ wrote' = [wrote EXCEPT ![li] = w]
    /\ LogRaised
    /\ UNCHANGED <<main_vars, result_offset, requested, pages, failed,
                   last_response, build_called, tiled, push_called>>

\* lines 104-114 and main lines 178-179: write_text succeeded, log() at line
\* 111 raises inside the try, the handler logs "Failed to write file" and
\* returns 0.
ReturnWrittenLogFailed ==
    /\ pc = "assemble"
    /\ ~NothingFetched(all_features)
    /\ all_features' = reproject_geojson(all_features)
    /\ files' = [files EXCEPT ![li] = FileAfterWrite(files[li], all_features', "ok", 0)]
    /\ wrote' = [wrote EXCEPT ![li] = "ok"]
    /\ counts' = Append(counts, 0)
    /\ total' = total + 0
    /\ li' = li + 1
    /\ pc' = "layer"
    /\ UNCHANGED <<processed, result_offset, requested, pages, failed,
                   last_response, tail_vars>>

\* lines 104-115 and main lines 178-179: fetch_features returned its count
\* (0 after the handler ran), main added it, and log() at main's line 179
\* raises.
ReturnWrittenLogRaises ==
    /\ pc = "assemble"
    /\ ~NothingFetched(all_features)
    /\ all_features' = reproject_geojson(all_features)
    /\ \E w \in WriteResults : \E b \in SizesOf(all_features', w) :
        /\ files' = [files EXCEPT ![li] = FileAfterWrite(files[li], all_features', w, b)]
        /\ wrote' = [wrote EXCEPT ![li] = w]
        /\ \E c \in {0, WriteReturn(all_features', w)} :
            /\ counts' = Append(counts, c)
            /\ total' = total + c
    /\ LogRaised
    /\ UNCHANGED <<li, processed, result_offset, requested, pages, failed,
                   last_response, build_called, tiled, push_called>>

\* main lines 181-183: log() raises at line 181, or at line 183 when the
\* total is 0.
EndOfCatalogLogRaises ==
    /\ pc = "layer"
    /\ li > NumLayers
    /\ LogRaised
    /\ UNCHANGED <<main_vars, fetch_vars, files, wrote, build_called, tiled,
                   push_called>>

\* main lines 181-184.
EndOfCatalog ==
    /\ pc = "layer"
    /\ li > NumLayers
    /\ IF NoData(total)
       THEN pc' = "done" /\ outcome' = "no_data"
       ELSE pc' = "build" /\ outcome' = outcome
    /\ UNCHANGED <<main_vars, fetch_vars, files, wrote, build_called, tiled,
                   push_called>>

\* build_tiles lines 122-125 and main line 192: no file above 500 bytes.
BuildNoFiles ==
    /\ pc = "build"
    /\ ValidFiles(files) = {}
    /\ build_called' = TRUE
    /\ outcome' = "build_failed"
    /\ pc' = "done"
    /\ UNCHANGED <<main_vars, fetch_vars, files, wrote, tiled, push_called>>

\* build_tiles lines 127-149: tippecanoe runs on the files.
BuildRun ==
    /\ pc = "build"
    /\ ValidFiles(files) # {}
    /\ build_called' = TRUE
    /\ tiled' = ValidFiles(files)
    /\ \E ok \in BOOLEAN :
        IF ok THEN pc' = "push" /\ outcome' = outcome
        ELSE pc' = "done" /\ outcome' = "build_failed"
    /\ UNCHANGED <<main_vars, fetch_vars, files, wrote, push_called>>

\* build_tiles lines 122-124 and main lines 192-195: no file above 500
\* bytes, and log() raises in build_tiles or in main after it.
BuildNoFilesLogRaises ==
    /\ pc = "build"
    /\ ValidFiles(files) = {}
    /\ build_called' = TRUE
    /\ LogRaised
    /\ UNCHANGED <<main_vars, fetch_vars, files, wrote, tiled, push_called>>

\* build_tiles lines 143-149 and main lines 192-195: tippecanoe ran, and
\* log() raises at line 145 or 148 (an OSError is no CalledProcessError) or
\* in main after a failed build.
BuildRunLogRaises ==
    /\ pc = "build"
    /\ ValidFiles(files) # {}
    /\ build_called' = TRUE
    /\ tiled' = ValidFiles(files)
    /\ LogRaised
    /\ UNCHANGED <<main_vars, fetch_vars, files, wrote, push_called>>

\* build_tiles line 144: tippecanoe cannot be started (not installed, not
\* executable); subprocess.run raises an OSError, which is no
\* CalledProcessError: it leaves build_tiles and main.
BuildToolMissing ==
    /\ pc = "build"
    /\ ValidFiles(files) # {}
    /\ build_called' = TRUE
    /\ pc' = "crashed"
    /\ outcome' = "tool_missing"
    /\ UNCHANGED <<main_vars, fetch_vars, files, wrote, tiled, push_called>>

\* main lines 186-195: git_commit_and_push, its exception caught.
Push ==
    /\ pc = "push"
    /\ push_called' = TRUE
    /\ \E ok \in BOOLEAN : outcome' = IF ok THEN "pushed" ELSE "push_failed"
    /\ pc' = "done"
    /\ UNCHANGED <<main_vars, fetch_vars, files, wrote, build_called, tiled>>

\* main lines 186-195: git_commit_and_push was called, and log() raises in
\* the handler (line 190) or at line 195.
PushLogRaises ==
    /\ pc = "push"
    /\ push_called' = TRUE
    /\ LogRaised
    /\ UNCHANGED <<main_vars, fetch_vars, files, wrote, build_called, tiled>>

Next ==
    \/ BeginLayer
    \/ RequestPage
    \/ ReceivePage
    \/ ReceiveEnd
    \/ ReceiveError
    \/ ReturnEmpty
    \/ ReturnWritten
    \/ EndOfCatalog
    \/ BuildNoFiles
    \/ BuildRun
    \/ BuildToolMissing
    \/ BeginLayerLogRaises
    \/ ReceivePageLogRaises
    \/ ReceiveErrorLogRaises
    \/ ReturnEmptyLogRaises
    \/ ReprojectRaises
    \/ WriteLogRaises
    \/ ReturnWrittenLogFailed
    \/ ReturnWrittenLogRaises
    \/ EndOfCatalogLogRaises
    \/ BuildNoFilesLogRaises
    \/ BuildRunLogRaises
    \/ PushLogRaises
    \/ Push

Spec == Init /\ [][Next]_vars

\* ------------------------------------------------------------ properties
RECURSIVE Flatten(_)
Flatten(ps) == IF ps = <<>> THEN <<>> ELSE Head(ps) \o Flatten(Tail(ps))

RECURSIVE Sum(_)
Sum(ns) == IF ns = <<>> THEN 0 ELSE Head(ns) + Sum(Tail(ns))

InLoop == pc \in {"request", "await"}
\* fetch_features of layer li - 1 has just returned to main.
Returned == pc = "layer" /\ li > 1
SomePositive == \E l \in 1..Len(counts) : counts[l] > 0
Occurrences(seq, x) == Cardinality({i \in 1..Len(seq) : seq[i] = x})
LastRequested == requested[Len(requested)]

\* C1: the requests of a layer are for offsets 0, P, 2P, ... in this order,
\* each once; the loop stops at the first response without features (one
\* request more than non-empty pages, none after it), and what was
\* accumulated is every feature of every page received, in order.
C1_Pagination ==
    /\ \A i \in 1..Len(requested) : requested[i] = (i - 1) * page_size
    /\ pc = "request" => Len(requested) = Len(pages)
    /\ pc = "await" => Len(requested) = Len(pages) + 1
    /\ pc \in {"request", "await", "assemble"} => all_features = Flatten(pages)
    /\ last_response = "end" =>
          /\ ~InLoop
          /\ Len(requested) = Len(pages) + 1

C1_Witness ==
    /\ pc = "assemble"
    /\ last_response = "end"
    /\ Len(pages) >= 2
    /\ requested[Len(requested)] = Len(pages) * page_size

\* C2: a page whose request failed with a transient error (the server
\* would answer a second attempt) has been requested again, at least once,
\* by the time the paging loop is left.
C2_Retried ==
    \A o \in failed :
        (last_response \in Transient /\ pc = "assemble") =>
            Occurrences(requested, o) >= 2

\* C3: a page whose request failed does not abort its layer and does not
\* block the pages after it: by the time fetch_features returns, a page
\* with a larger offset was requested, and the features of the other pages
\* were assembled (reprojected, in order) and their write was attempted.
C3_LaterPagesRequested ==
    (Returned /\ failed # {}) =>
        /\ \A o \in failed : \E i \in 1..Len(requested) : requested[i] > o
        /\ all_features = reproject_geojson(Flatten(pages))
        /\ pages # <<>> => wrote[li - 1] # "none"

\* C4: a file written in this run holds at least one feature.
C4_NoEmptyFile ==
    \A l \in Layers : wrote[l] = "ok" => files[l].features # <<>>

\* C5: build_tiles is called only after every layer was processed and
\* only if some layer's count is positive, and the push only after it; a
\* run that ended after main's loop over the layers called build_tiles if some
\* count is positive, and if none is it called neither build_tiles nor
\* the push and cannot end with status 0.
C5_BuildIffData ==
    /\ build_called => (Len(counts) = NumLayers /\ SomePositive)
    /\ push_called => build_called
    /\ (pc \in {"done", "crashed"} /\ li > NumLayers) =>
          /\ SomePositive => build_called
          /\ ~SomePositive =>
                (0 \notin ExitStatuses(pc) /\ ~build_called /\ ~push_called)

\* The collection assembled for the layer that just returned has no
\* feature: nothing was fetched (line 100) or every feature was dropped
\* (lines 61-66).
EndedEmpty == Returned /\ all_features = <<>>

\* C6: a layer that ended its fetch EMPTY and has a fallback dataset is
\* counted with the size of the fallback, and a run in which the last
\* layer did so does not end with "No data fetched".
C6_FallbackSubstituted ==
    /\ (EndedEmpty /\ FallbackCount(li - 1) > 0) =>
          counts[li - 1] = FallbackCount(li - 1)
    /\ (pc = "done" /\ all_features = <<>> /\ FallbackCount(NumLayers) > 0) =>
          outcome # "no_data"

\* C7: the files passed to tippecanoe are files of layers whose count in
\* this run is positive.
C7_OnlyThisRun ==
    tiled \subseteq {l \in Layers : l <= Len(counts) /\ counts[l] > 0}

\* C8: no failure of a layer leaves the layer: main is not left by an
\* exception before every layer was fetched and counted; it calls
\* fetch_features for the layers in catalog order, each once, and for all
\* of them before it goes on; a layer whose write did not succeed counts
\* 0, and the count of a layer is decided by its own pages and its own
\* write.
C8_ErrorsStayLocal ==
    /\ pc = "crashed" => Len(counts) = NumLayers
    /\ processed = [i \in 1..Len(processed) |-> i]
    /\ Len(processed) \in {Len(counts), Len(counts) + 1}
    /\ pc \in {"build", "push", "done"} => Len(processed) = NumLayers
    /\ total = Sum(counts)
    /\ \A l \in 1..Len(counts) : wrote[l] # "ok" => counts[l] = 0
    /\ Returned =>
          counts[li - 1] =
              IF wrote[li - 1] = "ok"
              THEN Len(SelectSeq(Flatten(pages), LAMBDA f : ShapeOk(f.geometry)))
              ELSE 0

\* The budget of a layer, in page requests: the largest one the bound on
\* the server's pages lets a run exceed.
LayerBudget == MaxPages

\* C9: the fetch of a layer stops under a budget of its own, whatever the
\* server returns: a layer is never asked for more pages than its budget.
C9_StopsWithinBudget == Len(requested) <= LayerBudget

Kept(raw) == SelectSeq(raw, LAMBDA f : ShapeOk(f.geometry))
NumDropped(raw) == Len(SelectSeq(raw, LAMBDA f : ~ShapeOk(f.geometry)))

\* C10: a file written in this run holds only features with a transformed
\* geometry, and as many as the count returned for the layer; for the layer that
\* just returned, they are the fetched features that converted, in order,
\* their number the fetched ones minus the dropped ones; the run total is
\* the sum of the counts.
C10_WrittenIsKept ==
    /\ \A l \in Layers : wrote[l] = "ok" =>
          /\ \A i \in 1..Len(files[l].features) :
                /\ ShapeOk(files[l].features[i].geometry)
                /\ files[l].features[i].geometry.coordinates # Point3857.coordinates
          /\ l <= Len(counts) => counts[l] = Len(files[l].features)
    /\ (Returned /\ wrote[li - 1] = "ok") =>
          LET raw == Flatten(pages)
              out == files[li - 1].features
          IN /\ Len(out) = Len(raw) - NumDropped(raw)
             /\ out = [i \in 1..Len(Kept(raw)) |->
                          [Kept(raw)[i] EXCEPT !.geometry = Reprojected(@)]]
    /\ total = Sum(counts)

====
